---------------------------- MODULE Spec2Model ----------------------------
(***************************************************************************)
(* Grok filter resolution (GrokFilter::try_from) and application           *)
(* (apply_filter) of lib/datadog/grok/src/grok_filter.rs.                  *)
(*                                                                         *)
(* Text is a sequence of one-character strings.  A 64-bit float is kept as *)
(* the decimal num * 10^(-exp) with num not divisible by 10 unless exp = 0 *)
(* (the shortest decimal that Rust prints for it).  The decimal stands for *)
(* the f64 nearest to it; parsing, truncation, printing and multiplication *)
(* by a power of two commute with that rounding for the short texts and    *)
(* the factors 2 and 0.5 used here.  Texts are over Alphabet only, so the  *)
(* f64 words "inf", "nan", exponents and JSON brackets cannot be formed.   *)
(***************************************************************************)
EXTENDS Integers, Sequences, FiniteSets

\* Longest extracted byte-string.
MaxLen == 4
\* Longest chain of apply_filter calls on one field.
MaxChain == 2
\* Longest argument list of a parsed function call.
MaxArgs == 2

\* Characters of the extracted byte-strings.
Alphabet == {"-", ".", "5", "a", "A"}

Digits == <<"0", "1", "2", "3", "4", "5", "6", "7", "8", "9">>

IsDigit(c) == \E i \in 1..10 : Digits[i] = c

DigitVal(c) == (CHOOSE i \in 1..10 : Digits[i] = c) - 1

RECURSIVE StringsOfLen(_)
StringsOfLen(n) ==
    IF n = 0 THEN {<<>>}
    ELSE {Append(s, c) : s \in StringsOfLen(n - 1), c \in Alphabet}

Strings == UNION {StringsOfLen(n) : n \in 0..MaxLen}

RECURSIVE Pow10(_)
Pow10(e) == IF e = 0 THEN 1 ELSE 10 * Pow10(e - 1)

Abs(n) == IF n < 0 THEN -n ELSE n

(***************************************************************************)
(* vrl_compiler::Value, one record shape for every variant:                *)
(*   Bytes   - s is the text                                               *)
(*   Integer - i is the i64                                                *)
(*   Float   - i * 10^(-e), normalised                                     *)
(*   Null, Boolean (i = 1 for true), Array (the empty array)               *)
(***************************************************************************)
Bytes(s) == [type |-> "Bytes", s |-> s, i |-> 0, e |-> 0]
Integer(n) == [type |-> "Integer", s |-> <<>>, i |-> n, e |-> 0]
Null == [type |-> "Null", s |-> <<>>, i |-> 0, e |-> 0]
Boolean(b) == [type |-> "Boolean", s |-> <<>>, i |-> IF b THEN 1 ELSE 0, e |-> 0]
EmptyArray == [type |-> "Array", s |-> <<>>, i |-> 0, e |-> 0]

\* Drop the trailing zeros of a decimal fraction.
RECURSIVE Norm(_, _)
Norm(num, exp) ==
    IF exp > 0 /\ num % 10 = 0 THEN Norm(num \div 10, exp - 1)
    ELSE [num |-> num, exp |-> exp]

Float(num, exp) ==
    LET d == Norm(num, exp)
    IN  [type |-> "Float", s |-> <<>>, i |-> d.num, e |-> d.exp]


(***************************************************************************)
(* Text helpers.                                                           *)
(***************************************************************************)
RECURSIVE NatToStr(_)
NatToStr(n) ==
    IF n < 10 THEN <<Digits[n + 1]>>
    ELSE Append(NatToStr(n \div 10), Digits[(n % 10) + 1])

\* i64 Display.
IntToStr(n) == IF n < 0 THEN <<"-">> \o NatToStr(-n) ELSE NatToStr(n)

\* The fractional digits of frac / 10^exp, zero-padded on the left.
RECURSIVE FracToStr(_, _)
FracToStr(frac, exp) ==
    IF exp = 0 THEN <<>>
    ELSE Append(FracToStr(frac \div 10, exp - 1), Digits[(frac % 10) + 1])

\* f64 Display of a normalised decimal: no exponent, no trailing ".0".
FloatToStr(num, exp) ==
    LET a == Abs(num)
        sign == IF num < 0 THEN <<"-">> ELSE <<>>
        whole == NatToStr(a \div Pow10(exp))
    IN  IF exp = 0 THEN sign \o whole
        ELSE sign \o whole \o <<".">> \o FracToStr(a % Pow10(exp), exp)

\* String::from_utf8_lossy: an invalid byte becomes U+FFFD.
FromUtf8Lossy(s) == [k \in 1..Len(s) |-> IF s[k] = "\\xFF" THEN "\\uFFFD" ELSE s[k]]

\* The escapes of the Display of Value::Bytes.
RECURSIVE Escape(_)
Escape(s) ==
    IF s = <<>> THEN <<>>
    ELSE LET c == Head(s)
             r == Escape(Tail(s))
         IN  CASE c = "\\" -> <<"\\", "\\">> \o r
               [] c = "\"" -> <<"\\", "\"">> \o r
               [] c = "\n" -> <<"\\", "n">> \o r
               [] OTHER -> <<c>> \o r

(***************************************************************************)
(* value.to_string(): the Display of vrl_compiler::Value.  A byte-string   *)
(* is rendered inside double quotes.                                       *)
(***************************************************************************)
to_string(v) ==
    CASE v.type = "Bytes" -> <<"\"">> \o Escape(FromUtf8Lossy(v.s)) \o <<"\"">>
      [] v.type = "Integer" -> IntToStr(v.i)
      [] v.type = "Float" -> FloatToStr(v.i, v.e)
      [] v.type = "Null" -> <<"n", "u", "l", "l">>
      [] v.type = "Boolean" ->
            IF v.i = 1 THEN <<"t", "r", "u", "e">> ELSE <<"f", "a", "l", "s", "e">>
      [] OTHER -> <<"[", "]">>

\* char::to_lowercase / char::to_uppercase on the characters of the model.
ToLowerChar(c) == IF c = "A" THEN "a" ELSE c

ToUpperChar(c) == IF c = "a" THEN "A" ELSE c

\* to_lowercase swapping the case of every letter.
to_lowercase_swap(s) ==
    [k \in 1..Len(s) |-> IF s[k] = "A" THEN "a" ELSE IF s[k] = "a" THEN "A" ELSE s[k]]

\* str::to_lowercase
to_lowercase(s) == [k \in 1..Len(s) |-> ToLowerChar(s[k])]

\* str::to_uppercase
to_uppercase(s) == [k \in 1..Len(s) |-> ToUpperChar(s[k])]

(***************************************************************************)
(* Number parsing.  A parse result is [ok, num, exp].                      *)
(***************************************************************************)
AllDigits(s) == \A k \in 1..Len(s) : IsDigit(s[k])

RECURSIVE DigitsVal(_)
DigitsVal(s) ==
    IF s = <<>> THEN 0
    ELSE 10 * DigitsVal(SubSeq(s, 1, Len(s) - 1)) + DigitVal(s[Len(s)])

ParseErr == [ok |-> FALSE, num |-> 0, exp |-> 0]

HasSign(s) == s # <<>> /\ Head(s) \in {"+", "-"}

Unsigned(s) == IF HasSign(s) THEN Tail(s) ELSE s

Negative(s) == s # <<>> /\ Head(s) = "-"

\* str::parse::<i64>: an optional sign, then one or more digits, nothing else.
ParseI64(s) ==
    LET body == Unsigned(s)
    IN  IF body # <<>> /\ AllDigits(body)
        THEN [ok |-> TRUE,
              num |-> IF Negative(s) THEN -DigitsVal(body) ELSE DigitsVal(body),
              exp |-> 0]
        ELSE ParseErr

\* Position of the first "." of s, or 0.
DotAt(s) ==
    IF \E k \in 1..Len(s) : s[k] = "."
    THEN CHOOSE k \in 1..Len(s) : s[k] = "." /\ \A j \in 1..(k - 1) : s[j] # "."
    ELSE 0

\* str::parse::<f64>: an optional sign, digits, an optional "." and digits,
\* at least one digit in all.
ParseF64(s) ==
    LET body == Unsigned(s)
        dot == DotAt(body)
        whole == IF dot = 0 THEN body ELSE SubSeq(body, 1, dot - 1)
        frac == IF dot = 0 THEN <<>> ELSE SubSeq(body, dot + 1, Len(body))
        mag == DigitsVal(whole \o frac)
    IN  IF AllDigits(whole) /\ AllDigits(frac) /\ Len(whole) + Len(frac) > 0
        THEN LET d == Norm(IF Negative(s) THEN -mag ELSE mag, Len(frac))
             IN  [ok |-> TRUE, num |-> d.num, exp |-> d.exp]
        ELSE ParseErr

\* TruncToI64 rounding toward minus infinity instead of toward zero.
TruncToI64_floor(num, exp) == num \div Pow10(exp)

\* f as i64: truncation toward zero.
TruncToI64(num, exp) ==
    IF num < 0 THEN -((-num) \div Pow10(exp)) ELSE num \div Pow10(exp)

\* The JSON number grammar: -? digits (no leading zero) ( "." digits+ )?
IsJsonNumber(s) ==
    LET body == IF Negative(s) THEN Tail(s) ELSE s
        dot == DotAt(body)
        whole == IF dot = 0 THEN body ELSE SubSeq(body, 1, dot - 1)
        frac == IF dot = 0 THEN <<>> ELSE SubSeq(body, dot + 1, Len(body))
    IN  /\ whole # <<>>
        /\ AllDigits(whole)
        /\ (Len(whole) > 1 => whole[1] # "0")
        /\ (dot # 0 => frac # <<>> /\ AllDigits(frac))

\* serde_json::from_slice then Value::from: over Alphabet the only JSON
\* documents are numbers; one without a fraction is an integer, and -0
\* and every number with a fraction is a float.
JsonParse(s) ==
    IF ~IsJsonNumber(s) THEN [ok |-> FALSE, value |-> Null]
    ELSE LET p == ParseF64(s)
         IN  IF DotAt(s) = 0 /\ ~(Negative(s) /\ p.num = 0)
             THEN [ok |-> TRUE, value |-> Integer(p.num)]
             ELSE [ok |-> TRUE, value |-> Float(p.num, p.exp)]

(***************************************************************************)
(* enum GrokFilter: name is the variant, sentinel the payload of NullIf,   *)
(* num and exp the payload of Scale.                                       *)
(***************************************************************************)
GrokFilter(n) == [name |-> n, sentinel |-> <<>>, num |-> 0, exp |-> 0]

NullIf(s) == [name |-> "NullIf", sentinel |-> s, num |-> 0, exp |-> 0]

Scale(num, exp) ==
    LET d == Norm(num, exp)
    IN  [name |-> "Scale", sentinel |-> <<>>, num |-> d.num, exp |-> d.exp]

NoFilter == GrokFilter("none")

\* filter.to_string(): the strum Display, the variant's name without payload.
Display(flt) == flt.name

(***************************************************************************)
(* ast::Function and ast::FunctionArgument.  args is the Option<Vec<..>>:   *)
(* some = FALSE is None.  An argument is a literal, Arg(value), or a       *)
(* nested function call.                                                   *)
(***************************************************************************)
Arg(v) == [kind |-> "Arg", value |-> v]

FunctionArg == [kind |-> "Function", value |-> Null]

Function(n, some, list) == [name |-> n, some |-> some, list |-> list]

NoFunction == Function("", FALSE, <<>>)

\* Result<GrokFilter, GrokStaticError>, or the panic of an index out of bounds.
StaticOk(flt) == [tag |-> "Ok", filter |-> flt, kind |-> "", name |-> ""]

InvalidFunctionArguments(n) ==
    [tag |-> "Err", filter |-> NoFilter, kind |-> "InvalidFunctionArguments", name |-> n]

UnknownFilter(n) ==
    [tag |-> "Err", filter |-> NoFilter, kind |-> "UnknownFilter", name |-> n]

StaticPanic == [tag |-> "Panic", filter |-> NoFilter, kind |-> "", name |-> ""]

NotResolved == [tag |-> "none", filter |-> NoFilter, kind |-> "", name |-> ""]

\* The "scale" arm of try_from.
ResolveScale(f) ==
    IF f.some /\ f.list # <<>>
    THEN LET a == f.list[1]
         IN  IF a.kind = "Arg" /\ a.value.type = "Integer"
             THEN StaticOk(Scale(a.value.i, 0))
             ELSE IF a.kind = "Arg" /\ a.value.type = "Float"
             THEN StaticOk(Scale(a.value.i, a.value.e))
             ELSE InvalidFunctionArguments(f.name)
    ELSE InvalidFunctionArguments(f.name)

\* The "nullIf" arm of try_from: args[0] is read without a length check.
ResolveNullIf(f) ==
    IF ~f.some THEN InvalidFunctionArguments(f.name)
    ELSE IF f.list = <<>> THEN StaticPanic
    ELSE IF f.list[1].kind = "Arg"
    THEN StaticOk(NullIf(to_string(f.list[1].value)))
    ELSE InvalidFunctionArguments(f.name)

\* try_from matching the filter name without regard to case.
try_from_nocase(f) ==
    CASE f.name = "scale" -> ResolveScale(f)
      [] f.name \in {"integer", "Integer"} -> StaticOk(GrokFilter("Integer"))
      [] f.name = "integerExt" -> StaticOk(GrokFilter("IntegerExt"))
      [] f.name = "number" -> StaticOk(GrokFilter("Number"))
      [] f.name = "numberExt" -> StaticOk(GrokFilter("NumberExt"))
      [] f.name = "lowercase" -> StaticOk(GrokFilter("Lowercase"))
      [] f.name = "uppercase" -> StaticOk(GrokFilter("Uppercase"))
      [] f.name = "json" -> StaticOk(GrokFilter("Json"))
      [] f.name \in {"nullIf", "nullif"} -> ResolveNullIf(f)
      [] OTHER -> UnknownFilter(f.name)

\* try_from with the results of "integerExt" and "numberExt" exchanged.
try_from_swapped(f) ==
    CASE f.name = "scale" -> ResolveScale(f)
      [] f.name = "integer" -> StaticOk(GrokFilter("Integer"))
      [] f.name = "integerExt" -> StaticOk(GrokFilter("NumberExt"))
      [] f.name = "number" -> StaticOk(GrokFilter("Number"))
      [] f.name = "numberExt" -> StaticOk(GrokFilter("IntegerExt"))
      [] f.name = "lowercase" -> StaticOk(GrokFilter("Lowercase"))
      [] f.name = "uppercase" -> StaticOk(GrokFilter("Uppercase"))
      [] f.name = "json" -> StaticOk(GrokFilter("Json"))
      [] f.name = "nullIf" -> ResolveNullIf(f)
      [] OTHER -> UnknownFilter(f.name)

\* impl TryFrom<&Function> for GrokFilter
try_from(f) ==
    CASE f.name = "scale" -> ResolveScale(f)
      [] f.name = "integer" -> StaticOk(GrokFilter("Integer"))
      [] f.name = "integerExt" -> StaticOk(GrokFilter("IntegerExt"))
      [] f.name = "number" -> StaticOk(GrokFilter("Number"))
      [] f.name = "numberExt" -> StaticOk(GrokFilter("NumberExt"))
      [] f.name = "lowercase" -> StaticOk(GrokFilter("Lowercase"))
      [] f.name = "uppercase" -> StaticOk(GrokFilter("Uppercase"))
      [] f.name = "json" -> StaticOk(GrokFilter("Json"))
      [] f.name = "nullIf" -> ResolveNullIf(f)
      [] OTHER -> UnknownFilter(f.name)

(***************************************************************************)
(* Result<Value, GrokRuntimeError>, or the panic of a NaN product.         *)
(***************************************************************************)
Ok(v) == [tag |-> "Ok", value |-> v, kind |-> "", filter |-> "", rendered |-> <<>>]

FailedToApplyFilter(fname, text) ==
    [tag |-> "Err", value |-> Null, kind |-> "FailedToApplyFilter",
     filter |-> fname, rendered |-> text]

NoResult == [tag |-> "none", value |-> Null, kind |-> "", filter |-> "", rendered |-> <<>>]

Failed(value, filter) == FailedToApplyFilter(Display(filter), to_string(value))

ApplyInteger(value, filter) ==
    IF value.type = "Bytes"
    THEN LET p == ParseI64(FromUtf8Lossy(value.s))
         IN  IF p.ok THEN Ok(Integer(p.num)) ELSE Failed(value, filter)
    ELSE Failed(value, filter)

ApplyIntegerExt(value, filter) ==
    IF value.type = "Bytes"
    THEN LET p == ParseF64(FromUtf8Lossy(value.s))
         IN  IF p.ok THEN Ok(Integer(TruncToI64(p.num, p.exp)))
             ELSE Failed(value, filter)
    ELSE Failed(value, filter)

ApplyNumber(value, filter) ==
    IF value.type = "Bytes"
    THEN LET p == ParseF64(FromUtf8Lossy(value.s))
         IN  IF p.ok THEN Ok(Float(p.num, p.exp)) ELSE Failed(value, filter)
    ELSE Failed(value, filter)

\* ApplyScale that also parses a byte-string as a number.
ApplyScale_parse(value, filter) ==
    IF value.type \in {"Integer", "Float"}
    THEN Ok(Float(value.i * filter.num, value.e + filter.exp))
    ELSE IF value.type = "Bytes" /\ ParseF64(value.s).ok
    THEN LET p == ParseF64(value.s)
         IN  Ok(Float(p.num * filter.num, p.exp + filter.exp))
    ELSE Failed(value, filter)

\* Both numeric variants multiply by the factor; the product of two finite
\* decimals is never NaN.
ApplyScale(value, filter) ==
    IF value.type \in {"Integer", "Float"}
    THEN Ok(Float(value.i * filter.num, value.e + filter.exp))
    ELSE Failed(value, filter)

\* ApplyLowercase that lowercases the rendering of a value of any other type.
ApplyLowercase_any(value, filter) ==
    IF value.type = "Bytes"
    THEN Ok(Bytes(to_lowercase(FromUtf8Lossy(value.s))))
    ELSE Ok(Bytes(to_lowercase(to_string(value))))

ApplyLowercase(value, filter) ==
    IF value.type = "Bytes"
    THEN Ok(Bytes(to_lowercase(FromUtf8Lossy(value.s))))
    ELSE Failed(value, filter)

ApplyUppercase(value, filter) ==
    IF value.type = "Bytes"
    THEN Ok(Bytes(to_uppercase(FromUtf8Lossy(value.s))))
    ELSE Failed(value, filter)

ApplyJson(value, filter) ==
    IF value.type = "Bytes"
    THEN LET p == JsonParse(value.s)
         IN  IF p.ok THEN Ok(p.value) ELSE Failed(value, filter)
    ELSE Failed(value, filter)

\* ApplyNullIf comparing the raw text, not the rendering, with the sentinel.
ApplyNullIf_raw(value, filter) ==
    IF value.type = "Bytes"
    THEN IF value.s = filter.sentinel THEN Ok(Null) ELSE Ok(value)
    ELSE Failed(value, filter)

ApplyNullIf(value, filter) ==
    IF value.type = "Bytes"
    THEN IF to_string(value) = filter.sentinel THEN Ok(Null) ELSE Ok(value)
    ELSE Failed(value, filter)

\* apply_filter with NumberExt sent to the truncating parse of IntegerExt.
apply_filter_split(value, filter) ==
    CASE filter.name = "Integer" -> ApplyInteger(value, filter)
      [] filter.name \in {"IntegerExt", "NumberExt"} -> ApplyIntegerExt(value, filter)
      [] filter.name = "Number" -> ApplyNumber(value, filter)
      [] filter.name = "Scale" -> ApplyScale(value, filter)
      [] filter.name = "Lowercase" -> ApplyLowercase(value, filter)
      [] filter.name = "Uppercase" -> ApplyUppercase(value, filter)
      [] filter.name = "Json" -> ApplyJson(value, filter)
      [] filter.name = "NullIf" -> ApplyNullIf(value, filter)

\* pub fn apply_filter(value: &Value, filter: &GrokFilter)
apply_filter(value, filter) ==
    CASE filter.name = "Integer" -> ApplyInteger(value, filter)
      [] filter.name = "IntegerExt" -> ApplyIntegerExt(value, filter)
      [] filter.name \in {"Number", "NumberExt"} -> ApplyNumber(value, filter)
      [] filter.name = "Scale" -> ApplyScale(value, filter)
      [] filter.name = "Lowercase" -> ApplyLowercase(value, filter)
      [] filter.name = "Uppercase" -> ApplyUppercase(value, filter)
      [] filter.name = "Json" -> ApplyJson(value, filter)
      [] filter.name = "NullIf" -> ApplyNullIf(value, filter)

(***************************************************************************)
(* The inputs.                                                             *)
(***************************************************************************)
KnownNames ==
    {"scale", "integer", "integerExt", "number", "numberExt", "lowercase",
     "uppercase", "json", "nullIf"}

\* Names outside the table: two case variants and a stranger.
UnknownNames == {"Integer", "nullif", "grok"}

\* Literal arguments (an integer, a float, a byte-string) and a nested call.
Arguments == {Arg(Integer(2)), Arg(Float(5, 1)), Arg(Bytes(<<"-">>)), FunctionArg}

RECURSIVE ArgListsOfLen(_)
ArgListsOfLen(n) ==
    IF n = 0 THEN {<<>>}
    ELSE {Append(l, a) : l \in ArgListsOfLen(n - 1), a \in Arguments}

ArgLists == UNION {ArgListsOfLen(n) : n \in 0..MaxArgs}

Functions ==
    {Function(nm, FALSE, <<>>) : nm \in KnownNames \cup UnknownNames}
        \cup {Function(nm, TRUE, l) : nm \in KnownNames \cup UnknownNames, l \in ArgLists}

\* The filters a compiled pattern can hold: those try_from returns.
ResolvedFilters ==
    {try_from(fn).filter : fn \in {g \in Functions : try_from(g).tag = "Ok"}}

\* Sentinels of NullIf filters built directly, not by try_from: the bare
\* text "-", which no rendering of a byte-string equals.
BareSentinels == {<<"-">>}

\* The filters apply_filter is called with: those of compiled patterns and
\* NullIf filters constructed with a bare sentinel.
AppliedFilters == ResolvedFilters \cup {NullIf(s) : s \in BareSentinels}

\* The values the extraction step hands to the first filter.
InputValues ==
    {Bytes(s) : s \in Strings}
        \cup {Integer(5), Integer(-5), Float(55, 1), Null, Boolean(TRUE), EmptyArray}

(***************************************************************************)
(* State.                                                                  *)
(*   pc       - "idle", "resolved" (try_from has run on f), "extracted"    *)
(*              (a field value waits for its first filter), "applied"      *)
(*   f        - the function call handed to try_from                       *)
(*   resolved - what try_from(f) returned                                  *)
(*   value    - the input of the latest apply_filter call                  *)
(*   filter   - the filter of the latest apply_filter call                 *)
(*   result   - what the latest apply_filter call returned                 *)
(*   prev     - the variant name of the filter applied before it in the    *)
(*              chain, "none" at the head of the chain                     *)
(*   n        - the number of apply_filter calls made in the chain         *)
(*   raw      - whether the chain started from a byte-string               *)
(***************************************************************************)
VARIABLES pc, f, resolved, value, filter, result, prev, n, raw

vars == <<pc, f, resolved, value, filter, result, prev, n, raw>>

Init ==
    /\ pc = "idle"
    /\ f = NoFunction
    /\ resolved = NotResolved
    /\ value = Null
    /\ filter = NoFilter
    /\ result = NoResult
    /\ prev = "none"
    /\ n = 0
    /\ raw = FALSE

\* The pattern compiler resolves one filter reference.
Resolve(fn) ==
    /\ pc = "idle"
    /\ pc' = "resolved"
    /\ f' = fn
    /\ resolved' = try_from(fn)
    /\ value' = Null
    /\ filter' = NoFilter
    /\ result' = NoResult
    /\ prev' = "none"
    /\ n' = 0
    /\ raw' = FALSE

\* The match executor starts the filter chain of one extracted field.
Extract(v) ==
    /\ pc = "idle"
    /\ pc' = "extracted"
    /\ f' = NoFunction
    /\ resolved' = NotResolved
    /\ value' = v
    /\ filter' = NoFilter
    /\ result' = NoResult
    /\ prev' = "none"
    /\ n' = 0
    /\ raw' = (v.type = "Bytes")

\* The match executor applies the next filter of the chain to the value the
\* chain has reached; a failed filter ends the chain.
Apply(flt) ==
    /\ pc \in {"extracted", "applied"}
    /\ n < MaxChain
    /\ n > 0 => result.tag = "Ok"
    /\ LET input == IF n = 0 THEN value ELSE result.value
       IN  /\ value' = input
           /\ result' = apply_filter(input, flt)
    /\ filter' = flt
    /\ prev' = (IF n = 0 THEN "none" ELSE Display(filter))
    /\ n' = n + 1
    /\ pc' = "applied"
    /\ UNCHANGED <<f, resolved, raw>>

\* The caller takes the result; the next call starts from scratch.
Return ==
    /\ pc \in {"resolved", "applied"}
    /\ pc' = "idle"
    /\ f' = NoFunction
    /\ resolved' = NotResolved
    /\ value' = Null
    /\ filter' = NoFilter
    /\ result' = NoResult
    /\ prev' = "none"
    /\ n' = 0
    /\ raw' = FALSE

Next ==
    \/ \E fn \in Functions : Resolve(fn)
    \/ \E v \in InputValues : Extract(v)
    \/ \E flt \in AppliedFilters : Apply(flt)
    \/ Return

Spec == Init /\ [][Next]_vars

(***************************************************************************)
(* The resolver.                                                           *)
(***************************************************************************)
ZeroArityNames ==
    {"integer", "integerExt", "number", "numberExt", "lowercase", "uppercase", "json"}

\* The table's variant for each zero-argument name.
VariantOf(nm) ==
    CASE nm = "integer" -> "Integer"
      [] nm = "integerExt" -> "IntegerExt"
      [] nm = "number" -> "Number"
      [] nm = "numberExt" -> "NumberExt"
      [] nm = "lowercase" -> "Lowercase"
      [] nm = "uppercase" -> "Uppercase"
      [] nm = "json" -> "Json"

IsStaticError(r) ==
    r.tag = "Err" /\ r.kind \in {"InvalidFunctionArguments", "UnknownFilter"}

IsInvalidArguments(r, nm) ==
    r.tag = "Err" /\ r.kind = "InvalidFunctionArguments" /\ r.name = nm

IsLiteral(a) == a.kind = "Arg"

IsNumberLiteral(a) == a.kind = "Arg" /\ a.value.type \in {"Integer", "Float"}

\* The call has the arity and the argument type the table asks for.
MatchesTable(g) ==
    CASE g.name \in ZeroArityNames -> ~g.some \/ g.list = <<>>
      [] g.name = "scale" -> g.some /\ Len(g.list) = 1 /\ IsNumberLiteral(g.list[1])
      [] g.name = "nullIf" -> g.some /\ Len(g.list) = 1 /\ IsLiteral(g.list[1])
      [] OTHER -> FALSE

\* C1: try_from is total: every call returns a filter or one of the two
\* static errors and never panics, and "scale" and "nullIf" with a present
\* but empty argument list return InvalidFunctionArguments.
C1_ResolveTotal ==
    pc = "resolved" =>
        /\ resolved.tag = "Ok" \/ IsStaticError(resolved)
        /\ (f.name \in {"scale", "nullIf"} /\ f.some /\ f.list = <<>>) =>
               IsInvalidArguments(resolved, f.name)

\* C2: a call of a known name whose argument list does not match the table's
\* arity and argument type returns InvalidFunctionArguments(name).
C2_MismatchIsInvalid ==
    (pc = "resolved" /\ f.name \in KnownNames /\ ~MatchesTable(f)) =>
        IsInvalidArguments(resolved, f.name)

\* C3: the error kind is chosen by the name alone: a name outside the table
\* gives UnknownFilter(name) whatever the arguments, and a name of the table
\* never gives UnknownFilter.
C3_UnknownByNameOnly ==
    pc = "resolved" =>
        /\ f.name \notin KnownNames =>
               resolved.tag = "Err" /\ resolved.kind = "UnknownFilter"
                   /\ resolved.name = f.name
        /\ f.name \in KnownNames => resolved.kind # "UnknownFilter"

\* A case variant of a known name, called with arguments, is unknown.
C3_Witness ==
    /\ pc = "resolved"
    /\ f.name = "Integer"
    /\ f.some /\ Len(f.list) = 1
    /\ resolved.kind = "UnknownFilter"

\* C4: a call that matches the table resolves to the table's variant: the
\* zero-argument names to their payload-free variants, scale to Scale(factor)
\* with an integer promoted to float, nullIf to NullIf(rendering of the
\* literal).
C4_ResolvesToTableVariant ==
    (pc = "resolved" /\ MatchesTable(f)) =>
        /\ resolved.tag = "Ok"
        /\ f.name \in ZeroArityNames => resolved.filter = GrokFilter(VariantOf(f.name))
        /\ f.name = "scale" =>
               /\ resolved.filter.name = "Scale"
               /\ resolved.filter.sentinel = <<>>
               /\ f.list[1] = Arg(Integer(2)) =>
                      resolved.filter.num = 2 /\ resolved.filter.exp = 0
               /\ f.list[1] = Arg(Float(5, 1)) =>
                      resolved.filter.num = 5 /\ resolved.filter.exp = 1
        /\ f.name = "nullIf" =>
               /\ resolved.filter.name = "NullIf"
               /\ resolved.filter.num = 0 /\ resolved.filter.exp = 0
               /\ f.list[1] = Arg(Integer(2)) => resolved.filter.sentinel = <<"2">>
               /\ f.list[1] = Arg(Float(5, 1)) =>
                      resolved.filter.sentinel = <<"0", ".", "5">>
               /\ f.list[1] = Arg(Bytes(<<"-">>)) =>
                      resolved.filter.sentinel = <<"\"", "-", "\"">>

\* nullIf("-") has resolved to NullIf with the rendering of "-" as sentinel.
C4_Witness ==
    /\ pc = "resolved"
    /\ f = Function("nullIf", TRUE, <<Arg(Bytes(<<"-">>))>>)
    /\ resolved.tag = "Ok"
    /\ resolved.filter.name = "NullIf"

(***************************************************************************)
(* The applicator.                                                         *)
(***************************************************************************)
IsFailedToApply(r, fname, text) ==
    /\ r.tag = "Err"
    /\ r.kind = "FailedToApplyFilter"
    /\ r.filter = fname
    /\ r.rendered = text

\* The input is of a type the filter does not accept.
WrongType(v, flt) ==
    IF flt.name = "Scale" THEN v.type \notin {"Integer", "Float"}
    ELSE v.type # "Bytes"

\* C5: a filter given a value of a type it does not accept (anything but a
\* byte-string; for Scale anything but an integer or a float) returns
\* FailedToApplyFilter with the filter's name and the rendering of the value,
\* and apply_filter returns no other kind of error.
C5_WrongTypeFails ==
    pc = "applied" =>
        /\ WrongType(value, filter) =>
               /\ IsFailedToApply(result, filter.name, to_string(value))
               /\ value = Null => result.rendered = <<"n", "u", "l", "l">>
               /\ value = Integer(-5) => result.rendered = <<"-", "5">>
               /\ value = Float(55, 1) => result.rendered = <<"5", ".", "5">>
        /\ result.tag # "Ok" => result.tag = "Err" /\ result.kind = "FailedToApplyFilter"

\* Lowercase has been refused an integer, and Scale a byte-string.
C5_Witness ==
    /\ pc = "applied"
    /\ \/ filter.name = "Lowercase" /\ value = Integer(5)
       \/ filter.name = "Scale" /\ value = Bytes(<<"5">>)
    /\ result.tag = "Err"
    /\ result.kind = "FailedToApplyFilter"

\* The filter the pattern nullIf("-") compiles to.
NullIfDash == try_from(Function("nullIf", TRUE, <<Arg(Bytes(<<"-">>))>>)).filter

\* The general clause of C6: NullIf(s) on a byte-string never fails, gives
\* null exactly when the rendering of the value equals s, and otherwise gives
\* the value itself.
NullIfByRendering ==
    /\ result.tag = "Ok"
    /\ result.value = Null <=> to_string(value) = filter.sentinel
    /\ result.value # Null => result.value = value

\* C6 as stated: NullIf(s) on a byte-string never fails, gives null exactly
\* when the rendering of the value equals s and otherwise the value itself,
\* so that NullIf("-") gives null on "-" and leaves "a" as it is.
C6_AsStated ==
    (pc = "applied" /\ filter.name = "NullIf" /\ value.type = "Bytes") =>
        /\ NullIfByRendering
        /\ filter = NullIf(<<"-">>) =>
               /\ value.s = <<"-">> => result.value = Null
               /\ value.s = <<"a">> => result.value = Bytes(<<"a">>)

\* C6 amended: the general clause holds for every sentinel; the rendering of
\* a byte-string is the text inside double quotes, so it is the filter that
\* nullIf("-") resolves to (sentinel "-" in quotes) that gives null on "-"
\* and leaves every other text as it is, while NullIf with the bare sentinel
\* "-" returns every byte-string, "-" included, unchanged.
C6_NullIfOnBytes ==
    (pc = "applied" /\ filter.name = "NullIf" /\ value.type = "Bytes") =>
        /\ NullIfByRendering
        /\ filter = NullIfDash =>
               /\ filter.sentinel = <<"\"", "-", "\"">>
               /\ value.s = <<"-">> => result.value = Null
               /\ value.s = <<"a">> => result.value = Bytes(<<"a">>)
               /\ value.s # <<"-">> => result.value = value
        /\ filter = NullIf(<<"-">>) => result.value = value

\* The filter of nullIf("-") has turned the byte-string "-" into null.
C6_Witness ==
    /\ pc = "applied"
    /\ filter = NullIfDash
    /\ value = Bytes(<<"-">>)
    /\ result.tag = "Ok"
    /\ result.value = Null

OtherNumber(flt) == GrokFilter(IF flt.name = "Number" THEN "NumberExt" ELSE "Number")

\* C7 as stated: Number and NumberExt give the same outcome on every input,
\* the same float on success and the same result on failure.
C7_SameOutcome ==
    (pc = "applied" /\ filter.name \in {"Number", "NumberExt"}) =>
        result = apply_filter(value, OtherNumber(filter))

\* C7 amended: Number and NumberExt succeed on the same inputs with the same
\* float and fail on the same inputs with the same rendered value; the two
\* errors differ in the filter name they carry, each its own.
C7_SameUpToFilterName ==
    (pc = "applied" /\ filter.name \in {"Number", "NumberExt"}) =>
        LET other == apply_filter(value, OtherNumber(filter))
        IN  /\ result.tag = other.tag
            /\ result.value = other.value
            /\ result.kind = other.kind
            /\ result.rendered = other.rendered
            /\ result.tag = "Ok" => result.value.type = "Float" /\ result = other
            /\ result.tag = "Err" =>
                   /\ result.filter = filter.name
                   /\ other.filter = OtherNumber(filter).name
                   /\ result.filter # other.filter

\* NumberExt has parsed "5.5" into the float 5.5.
C7_Witness ==
    /\ pc = "applied"
    /\ filter.name = "NumberExt"
    /\ value = Bytes(<<"5", ".", "5">>)
    /\ result.tag = "Ok"
    /\ result.value = Float(55, 1)

\* The text without its leading minus sign.
Magnitude(s) == IF s # <<>> /\ Head(s) = "-" THEN Tail(s) ELSE s

\* digits "." digits with a non-zero fraction, after an optional minus sign.
IsFractionalDecimal(s) ==
    LET body == Magnitude(s)
    IN  \E k \in 2..(Len(body) - 1) :
            /\ body[k] = "."
            /\ AllDigits(SubSeq(body, 1, k - 1))
            /\ AllDigits(SubSeq(body, k + 1, Len(body)))
            /\ DigitsVal(SubSeq(body, k + 1, Len(body))) # 0

\* One or more digits after an optional minus sign.
IsPlainInteger(s) == Magnitude(s) # <<>> /\ AllDigits(Magnitude(s))

\* The digits before the ".", signed: the number truncated toward zero.
WholePart(s) ==
    LET body == Magnitude(s)
        k == CHOOSE j \in 1..(Len(body) + 1) :
                 /\ j <= Len(body) => body[j] = "."
                 /\ \A h \in 1..(j - 1) : body[h] # "."
        w == DigitsVal(SubSeq(body, 1, k - 1))
    IN  IF s # <<>> /\ Head(s) = "-" THEN -w ELSE w

\* C8: on a decimal text with a non-zero fraction Integer fails and IntegerExt
\* gives the number truncated toward zero; on a plain integer text Integer
\* gives that integer.
C8_IntegerVsIntegerExt ==
    (pc = "applied" /\ value.type = "Bytes") =>
        /\ (filter.name = "Integer" /\ IsFractionalDecimal(value.s)) =>
               IsFailedToApply(result, "Integer", to_string(value))
        /\ (filter.name = "IntegerExt" /\ IsFractionalDecimal(value.s)) =>
               result = Ok(Integer(WholePart(value.s)))
        /\ (filter.name = "Integer" /\ IsPlainInteger(value.s)) =>
               result = Ok(Integer(WholePart(value.s)))

\* IntegerExt has truncated "-5.5" toward zero, to -5.
C8_Witness ==
    /\ pc = "applied"
    /\ filter.name = "IntegerExt"
    /\ value = Bytes(<<"-", "5", ".", "5">>)
    /\ result = Ok(Integer(-5))

\* C9: Lowercase applied to the output of Lowercase succeeds and returns its
\* input, and likewise Uppercase.
C9_CaseIdempotent ==
    (pc = "applied" /\ n >= 2 /\ prev = filter.name
        /\ filter.name \in {"Lowercase", "Uppercase"}) =>
        /\ value.type = "Bytes"
        /\ result = Ok(value)

\* Lowercase has been applied twice in a row, the second time to "a-a".
C9_Witness ==
    /\ pc = "applied"
    /\ n = 2
    /\ prev = "Lowercase"
    /\ filter.name = "Lowercase"
    /\ value = Bytes(<<"a", "-", "a">>)
    /\ result.tag = "Ok"

IntegerFilters == {"Integer", "IntegerExt"}

FloatFilters == {"Number", "NumberExt", "Scale"}

NumericFilters == IntegerFilters \cup FloatFilters

\* C10: in a chain that starts from a byte-string the filter fixes the type
\* of a successful result; Scale fails at the head of the chain; after a
\* numeric filter only Scale succeeds; after NullIf has given null the next
\* filter fails with FailedToApplyFilter.
C10_ChainTypes ==
    (pc = "applied" /\ raw) =>
        /\ result.tag = "Ok" =>
               /\ filter.name \in IntegerFilters => result.value.type = "Integer"
               /\ filter.name \in FloatFilters => result.value.type = "Float"
               /\ filter.name \in {"Lowercase", "Uppercase"} =>
                      result.value.type = "Bytes"
               /\ filter.name = "NullIf" => result.value.type \in {"Null", "Bytes"}
        /\ (n = 1 /\ filter.name = "Scale") =>
               IsFailedToApply(result, "Scale", to_string(value))
        /\ (n >= 2 /\ prev \in NumericFilters /\ filter.name # "Scale") =>
               IsFailedToApply(result, filter.name, to_string(value))
        /\ (n >= 2 /\ prev = "NullIf" /\ value = Null) =>
               IsFailedToApply(result, filter.name, <<"n", "u", "l", "l">>)

\* After IntegerExt on a byte-string, Scale has succeeded with a float.
C10_Witness ==
    /\ pc = "applied"
    /\ raw
    /\ n = 2
    /\ prev = "IntegerExt"
    /\ filter.name = "Scale"
    /\ result.tag = "Ok"
    /\ result.value.type = "Float"

=============================================================================
